---- MODULE Spec2Model ----
(***************************************************************************)
(* The overdue-invoice reminder dispatcher (edge function                  *)
(* invoice-reminder.ts): the serve handler, its per-invoice loop, the      *)
(* provider call sendReminderEmail and the state update on the invoices    *)
(* table.  One run of the handler is a sequence of steps, one per await.   *)
(***************************************************************************)
EXTENDS Integers, Sequences, FiniteSets, TLC

\* ---- bounds of the model ----
NumInvoices == 2
NumRuns == 2
MaxInvocations == 2
MaxTicks == 2

\* ---- program constants ----
SevenDays == 7 * 24 * 60 * 60 * 1000
MsPerDay == 24 * 60 * 60 * 1000
MaxReminders == 3

\* SQL NULL / JS null of a numeric or date column, and of the email column
Null == -1
NoEmail == ""

Ids == 1 .. NumInvoices
Runs == 1 .. NumRuns

\* due dates are stored as calendar days; the run starts around midnight of FirstDay
FirstDay == 1
StartClock == FirstDay * MsPerDay - 1

\* what the profiles table can hold for the owner of an invoice: a row with or
\* without an email address
Profiles == {[email |-> NoEmail], [email |-> "user@example.com"]}

\* invoices       the invoices table: id -> row
\* clock          the latest wall-clock time read (ms)
\* invocations    number of requests received so far
\* dispatched     reminders delivered per invoice over its lifetime (SpecTally)
\* pc             per run: "Idle", "Selecting", "Resolving", "Dispatching",
\*                "Updating" or "Done": the await the run is suspended at
\* now            per run: const now
\* snap           per run: const invoices, the rows the bulk read returned
\* idx            per run: position of the for loop in snap
\* remindersSent  per run: let remindersSent
\* response       per run: the Response returned
\* events         per run: the calls the run has made and what they answered
VARIABLES invoices, clock, invocations, dispatched,
          pc, now, snap, idx, remindersSent, response, events

vars == <<invoices, clock, invocations, dispatched,
          pc, now, snap, idx, remindersSent, response, events>>

\* ---- pure helpers of the handler ----

\* new Date(inv.due_date).getTime(): a stored day becomes its UTC midnight in ms
ParseDate(d) == d * MsPerDay

\* JS truthiness of a nullable number
Truthy(n) == n # Null /\ n # 0

OutsideWindow_Inclusive(due, t) == due > t /\ (due - t) >= SevenDays

\* the window test of the loop: due more than seven days after now
OutsideWindow(due, t) == due > t /\ (due - t) > SevenDays

CapReached_OffByOne(c) == Truthy(c) /\ c > MaxReminders

\* the cap test of the loop
CapReached(c) == Truthy(c) /\ c >= MaxReminders

\* (inv.reminder_count || 0) + 1
NextCount(c) == (IF Truthy(c) THEN c ELSE 0) + 1

StatusFilter_None(row) == TRUE

\* the .eq('status', 'open') filter of the bulk read
StatusFilter(row) == row.status = "open"

ThrowsOnReadError_Never(error) == FALSE

\* if (error) throw error
ThrowsOnReadError(error) == error

\* data of a failed lookup is null: user?.email is undefined
NoUser == [email |-> NoEmail]

NoRecipient_ErrorOnly(userError, user) == userError

\* if (userError || !user?.email) continue
NoRecipient(userError, user) == userError \/ user.email = NoEmail

ProviderAnswers == {"ok", "non2xx", "neterr"}

\* res.ok of the provider's answer
ResOk(res) == res = "ok"

SendThrows_NetworkOnly(res) == res = "neterr"

SendThrows_Always(res) == TRUE

\* sendReminderEmail throws: fetch rejected, or the answer is not ok
SendThrows(res) == res = "neterr" \/ ~ResOk(res)

\* inv.amount.toFixed(2) throws a TypeError on a null amount
ComposeThrows(inv) == inv.amount = Null

Skips_NoDueDateGuard(inv, t) ==
  \/ OutsideWindow(ParseDate(inv.due_date), t)
  \/ CapReached(inv.reminder_count)

\* the three guards at the head of the loop body: the row is passed over
Skips(inv, t) ==
  \/ inv.due_date = Null
  \/ OutsideWindow(ParseDate(inv.due_date), t)
  \/ CapReached(inv.reminder_count)

\* the first row at or after position k that the guards let through, or the
\* position after the last row
RECURSIVE NextAdmitted(_, _, _)
NextAdmitted(rows, k, t) ==
  IF k > Len(rows) THEN k
  ELSE IF Skips(rows[k], t) THEN NextAdmitted(rows, k + 1, t)
  ELSE k

\* the rows of S in the order the store returns them, taken to be by id (Init lets
\* every row stand at every id, so every order of the rows is covered)
RECURSIVE InOrder(_, _)
InOrder(S, from) ==
  IF from > NumInvoices THEN <<>>
  ELSE (IF from \in S THEN <<from>> ELSE <<>>) \o InOrder(S, from + 1)

\* the row of the snapshot: the selected columns of invoice i
Row(i) == [id |-> i,
           user_id |-> invoices[i].user_id,
           amount |-> invoices[i].amount,
           due_date |-> invoices[i].due_date,
           payment_reference |-> invoices[i].payment_reference,
           reminder_sent_at |-> invoices[i].reminder_sent_at,
           reminder_count |-> invoices[i].reminder_count,
           status |-> invoices[i].status]

Selected == {i \in Ids : StatusFilter(invoices[i])}

\* ---- responses ----
NoResponse == [status |-> 0, kind |-> "none", remindersSent |-> 0, error |-> ""]
PreflightResponse == [status |-> 200, kind |-> "ok", remindersSent |-> 0, error |-> ""]
SummaryResponse(n) == [status |-> 200, kind |-> "summary", remindersSent |-> n, error |-> ""]
ErrorResponse(msg) == [status |-> 500, kind |-> "error", remindersSent |-> 0, error |-> msg]

ReadErrorMessage == "bulk read failed"
TypeErrorMessage == "TypeError"

\* ---- ghost record of what a run did ----

\* the log line of the inner catch, and all the log lines the handler can write
DispatchFailureLog == "Reminder e-mail error:"
LogLines == {DispatchFailureLog}

Ev(op, i) == [op |-> op, id |-> i]
Did(r, op, i) == \E k \in DOMAIN events[r] : events[r][k].op = op /\ events[r][k].id = i
Cur(r) == snap[r][idx[r]]

\* ---- initial state ----
InvoiceRow(s, d, c, a) ==
  [user_id |-> 1, amount |-> a, due_date |-> d, payment_reference |-> "ref",
   reminder_sent_at |-> IF c = 0 THEN Null ELSE 0,
   reminder_count |-> c, status |-> s]

\* the rows an invoice may start as: an open invoice due on the first day that was
\* never reminded, is one reminder below the cap, or is at the cap (the counts in
\* between are reached by the runs); one due a week later; one without a due
\* date; one without an amount; and an invoice that is not open
InvoiceRows ==
  {InvoiceRow("open", FirstDay, c, 25) : c \in {0, MaxReminders - 1, MaxReminders}}
    \cup {InvoiceRow("open", FirstDay + 7, 0, 25),
          InvoiceRow("open", Null, 0, 25),
          InvoiceRow("open", FirstDay, 0, Null),
          InvoiceRow("paid", FirstDay, 0, 25)}

Init ==
  /\ invoices \in [Ids -> InvoiceRows]
  /\ clock = StartClock
  /\ invocations = 0
  /\ dispatched = [i \in Ids |-> invoices[i].reminder_count]
  /\ pc = [r \in Runs |-> "Idle"]
  /\ now = [r \in Runs |-> 0]
  /\ snap = [r \in Runs |-> <<>>]
  /\ idx = [r \in Runs |-> 1]
  /\ remindersSent = [r \in Runs |-> 0]
  /\ response = [r \in Runs |-> NoResponse]
  /\ events = [r \in Runs |-> <<>>]

\* ---- the handler ----

\* the outer catch: the run ends with the error result
Abort(r, msg) ==
  /\ pc' = [pc EXCEPT ![r] = "Done"]
  /\ response' = [response EXCEPT ![r] = ErrorResponse(msg)]

Loop_Retry(r, rows, k, n) ==
  LET j == NextAdmitted(rows, IF k > 1 THEN k - 1 ELSE k, now[r]) IN
    /\ idx' = [idx EXCEPT ![r] = j]
    /\ IF j > Len(rows)
         THEN /\ pc' = [pc EXCEPT ![r] = "Done"]
              /\ response' = [response EXCEPT ![r] = SummaryResponse(n)]
         ELSE /\ pc' = [pc EXCEPT ![r] = "Resolving"]
              /\ UNCHANGED response

\* the for loop from row k on, with n reminders counted: it runs without
\* interruption up to the next await (the profile lookup of an admitted row) or,
\* past the last row, to the success result
Loop(r, rows, k, n) ==
  LET j == NextAdmitted(rows, k, now[r]) IN
    /\ idx' = [idx EXCEPT ![r] = j]
    /\ IF j > Len(rows)
         THEN /\ pc' = [pc EXCEPT ![r] = "Done"]
              /\ response' = [response EXCEPT ![r] = SummaryResponse(n)]
         ELSE /\ pc' = [pc EXCEPT ![r] = "Resolving"]
              /\ UNCHANGED response

\* the methods a request can carry
Methods == {"OPTIONS", "POST"}

IsPreflight_Never(method) == FALSE

\* req.method === 'OPTIONS'
IsPreflight(method) == method = "OPTIONS"

\* a request arrives at an instance that is not busy.  A preflight is answered at
\* once; any other request starts a run: now = new Date() reads the wall clock,
\* which never runs backwards, and the bulk read is issued
Request(r, method) ==
  /\ pc[r] \in {"Idle", "Done"}
  /\ invocations' = invocations + 1
  /\ events' = [events EXCEPT ![r] =
                  IF method = "OPTIONS" THEN <<Ev("options", 0)>> ELSE <<>>]
  /\ snap' = [snap EXCEPT ![r] = <<>>]
  /\ idx' = [idx EXCEPT ![r] = 1]
  /\ remindersSent' = [remindersSent EXCEPT ![r] = 0]
  /\ IF IsPreflight(method)
       THEN /\ pc' = [pc EXCEPT ![r] = "Done"]
            /\ response' = [response EXCEPT ![r] = PreflightResponse]
            /\ now' = [now EXCEPT ![r] = 0]
            /\ UNCHANGED clock
       ELSE /\ pc' = [pc EXCEPT ![r] = "Selecting"]
            /\ response' = [response EXCEPT ![r] = NoResponse]
            /\ \E t \in clock .. StartClock + MaxTicks :
                 /\ clock' = t
                 /\ now' = [now EXCEPT ![r] = t]
  /\ UNCHANGED <<invoices, dispatched>>

\* the scheduler and its clients send MaxInvocations requests
Preflight(r) == invocations < MaxInvocations /\ Request(r, "OPTIONS")

Invoke(r) ==
  /\ invocations < MaxInvocations
  /\ \E method \in Methods \ {"OPTIONS"} : Request(r, method)

\* the same, with one request more
MoreInvocations == MaxInvocations + 1

InvokeMore(r) ==
  /\ invocations < MoreInvocations
  /\ \E method \in Methods \ {"OPTIONS"} : Request(r, method)

\* the bulk read answers: an error, or the open invoices; the loop starts
BulkRead(r) ==
  /\ pc[r] = "Selecting"
  /\ \E error \in BOOLEAN :
       IF error
         THEN /\ events' = [events EXCEPT ![r] = Append(@, Ev("readfail", 0))]
              /\ IF ThrowsOnReadError(error)
                   THEN Abort(r, ReadErrorMessage)
                   ELSE Abort(r, TypeErrorMessage)  \* data is null: not iterable
              /\ UNCHANGED <<snap, idx, remindersSent>>
         ELSE LET order == InOrder(Selected, 1)
                  rows == [k \in 1 .. Len(order) |-> Row(order[k])]
              IN /\ snap' = [snap EXCEPT ![r] = rows]
                 /\ remindersSent' = [remindersSent EXCEPT ![r] = 0]
                 /\ Loop(r, rows, 1, 0)
                 /\ UNCHANGED events
  /\ UNCHANGED <<invoices, clock, invocations, dispatched, now>>

\* the profile lookup answers; then the message is composed
Resolve(r) ==
  /\ pc[r] = "Resolving"
  /\ \E userError \in BOOLEAN, row \in Profiles :
       LET inv == Cur(r)
           user == IF userError THEN NoUser ELSE row
           answer == IF userError \/ user.email = NoEmail
                       THEN <<Ev("lookup", inv.id), Ev("noemail", inv.id)>>
                       ELSE <<Ev("lookup", inv.id)>>
       IN /\ events' = [events EXCEPT ![r] = @ \o answer]
          /\ IF NoRecipient(userError, user)
               THEN Loop(r, snap[r], idx[r] + 1, remindersSent[r])   \* continue
               ELSE /\ idx' = idx
                    /\ IF ComposeThrows(inv)
                         THEN Abort(r, TypeErrorMessage)
                         ELSE /\ pc' = [pc EXCEPT ![r] = "Dispatching"]
                              /\ UNCHANGED response
  /\ UNCHANGED <<invoices, clock, invocations, dispatched, now, snap, remindersSent>>

\* sendReminderEmail with the provider's answer res: ok, non-2xx, or the call errors
Send(r, res) ==
  /\ pc[r] = "Dispatching"
  /\ LET inv == Cur(r) IN
       /\ events' = [events EXCEPT ![r] =
                        @ \o <<Ev("dispatch", inv.id),
                               Ev(IF ResOk(res) THEN "sent" ELSE "failed", inv.id)>>
                          \o (IF SendThrows(res)
                                THEN <<Ev(DispatchFailureLog, inv.id)>> ELSE <<>>)]
       /\ IF SendThrows(res)
            THEN Loop(r, snap[r], idx[r] + 1, remindersSent[r])   \* inner catch
            ELSE /\ pc' = [pc EXCEPT ![r] = "Updating"]
                 /\ UNCHANGED <<idx, response>>
  /\ UNCHANGED <<invoices, invocations, now, snap, remindersSent>>

Dispatch(r) ==
  \E res \in ProviderAnswers : Send(r, res) /\ UNCHANGED <<clock, dispatched>>

\* the same step, with the lifetime tally of delivered reminders kept
DispatchTallied(r) ==
  \E res \in ProviderAnswers :
    /\ Send(r, res)
    /\ dispatched' = IF ResOk(res)
                       THEN [dispatched EXCEPT ![Cur(r).id] = @ + 1]
                       ELSE dispatched
    /\ UNCHANGED clock

\* the same step, with the time the call takes: the provider's answer arrives at
\* a time t that is not before the last time read, and the clock stands at t
DispatchTimed(r) ==
  \E res \in ProviderAnswers, t \in clock .. StartClock + MaxTicks :
    /\ Send(r, res)
    /\ clock' = t
    /\ UNCHANGED dispatched

Matches_Owner(inv, i) == invoices[i].user_id = inv.user_id

\* .eq('id', inv.id): the rows the update applies to
Matches(inv, i) == i = inv.id

SentAt_WriteTime(r) == clock

\* reminder_sent_at: now.toISOString(), the instant read at the start of the run
\* (the ISO string keeps the milliseconds, so the stored instant is now itself)
SentAt(r) == now[r]

WrittenCount_Stored(r) == NextCount(invoices[Cur(r).id].reminder_count)

\* reminder_count: (inv.reminder_count || 0) + 1, inv being the row of the snapshot
WrittenCount(r) == NextCount(Cur(r).reminder_count)

\* the update of the invoice answers; its result is not looked at
Update(r) ==
  /\ pc[r] = "Updating"
  /\ \E updateError \in BOOLEAN :
       LET inv == Cur(r) IN
         IF updateError
           THEN /\ events' = [events EXCEPT ![r] = Append(@, Ev("updfail", inv.id))]
                /\ UNCHANGED invoices
           ELSE /\ events' = [events EXCEPT ![r] = Append(@, Ev("write", inv.id))]
                /\ invoices' =
                     [i \in Ids |->
                        IF Matches(inv, i)
                          THEN [invoices[i] EXCEPT
                                  !.reminder_sent_at = SentAt(r),
                                  !.reminder_count = WrittenCount(r)]
                          ELSE invoices[i]]
  /\ remindersSent' = [remindersSent EXCEPT ![r] = @ + 1]
  /\ Loop(r, snap[r], idx[r] + 1, remindersSent[r] + 1)
  /\ UNCHANGED <<clock, invocations, dispatched, now, snap>>

\* runs that do not overlap: one handler instance, invoked again after it returned
Next ==
  \/ Preflight(1)
  \/ Invoke(1)
  \/ BulkRead(1)
  \/ Resolve(1)
  \/ Dispatch(1)
  \/ Update(1)

Spec == Init /\ [][Next]_vars

\* the same runs, with the reminders delivered for each invoice over its lifetime
\* tallied in dispatched (the stored counts are taken as exact at the start)
NextTally ==
  \/ Preflight(1)
  \/ Invoke(1)
  \/ BulkRead(1)
  \/ Resolve(1)
  \/ DispatchTallied(1)
  \/ Update(1)

SpecTally == Init /\ [][NextTally]_vars

\* the same runs, with the wall clock moving on while a run waits for the
\* provider: at the update that follows a send the clock is the time of the send
NextTimed ==
  \/ Preflight(1)
  \/ Invoke(1)
  \/ BulkRead(1)
  \/ Resolve(1)
  \/ DispatchTimed(1)
  \/ Update(1)

SpecTimed == Init /\ [][NextTimed]_vars

\* the provider never answers: the fetch of sendReminderEmail carries no timeout
\* and no abort signal, so its await never settles and the run stays suspended
ProviderHangs(r) ==
  /\ pc[r] = "Dispatching"
  /\ pc' = [pc EXCEPT ![r] = "Waiting"]
  /\ events' = [events EXCEPT ![r] =
                  @ \o <<Ev("dispatch", Cur(r).id), Ev("noanswer", Cur(r).id)>>]
  /\ UNCHANGED <<invoices, clock, invocations, dispatched,
                 now, snap, idx, remindersSent, response>>

\* the steps of a run that follow an answer of the data store or the provider
Resume(r) == BulkRead(r) \/ Resolve(r) \/ Dispatch(r) \/ Update(r)

\* the same runs with a provider that may also never answer.  The data store
\* answers every call and the runtime resumes the handler on every answer, so a
\* step of the run that stays possible is taken
NextLive ==
  \/ Preflight(1)
  \/ Invoke(1)
  \/ BulkRead(1)
  \/ Resolve(1)
  \/ Dispatch(1)
  \/ ProviderHangs(1)
  \/ Update(1)

SpecLive == Init /\ [][NextLive]_vars /\ WF_vars(Resume(1))

\* runs that overlap: the scheduler may invoke the function again while earlier
\* runs are still under way, each in its own instance; nothing but the invoices
\* table is shared, and the steps of the runs interleave at their awaits
NextOverlap ==
  \E r \in Runs :
    \/ Preflight(r)
    \/ Invoke(r)
    \/ BulkRead(r)
    \/ Resolve(r)
    \/ Dispatch(r)
    \/ Update(r)

SpecOverlap == Init /\ [][NextOverlap]_vars

\* another actor on the invoices table: an open invoice is paid.  The handler
\* reads the status once, in its bulk read
MarkPaid(i) ==
  /\ invoices[i].status = "open"
  /\ invoices' = [invoices EXCEPT ![i].status = "paid"]
  /\ UNCHANGED <<clock, invocations, dispatched,
                 pc, now, snap, idx, remindersSent, response, events>>

\* runs that do not overlap, while invoices are being paid
NextPaid ==
  \/ Preflight(1)
  \/ Invoke(1)
  \/ BulkRead(1)
  \/ Resolve(1)
  \/ Dispatch(1)
  \/ Update(1)
  \/ \E i \in Ids : MarkPaid(i)

SpecPaid == Init /\ [][NextPaid]_vars

\* overlapping runs with one invocation more: a third run can read and advance
\* a count between the read and the write of an earlier run
NextLate ==
  \E r \in Runs :
    \/ InvokeMore(r)
    \/ BulkRead(r)
    \/ Resolve(r)
    \/ Dispatch(r)
    \/ Update(r)

SpecLate == Init /\ [][NextLate]_vars

\* ---- properties ----

\* the run r has examined (passed the due-date, window and cap tests for) row k
Examined(r, k) == k <= idx[r]

\* the run r let row k through to the recipient lookup
Admitted(r, k) ==
  Did(r, "lookup", snap[r][k].id) \/ (k = idx[r] /\ pc[r] = "Resolving")

\* the run r takes the step in which event op of invoice i happens
Happens(r, op, i) ==
  events'[r] # events[r] /\ ~Did(r, op, i) /\ Did(r, op, i)'

\* C1: with runs that do not overlap, the stored reminder_count of every invoice is
\* at most 3 in every reachable state, whatever happened to the invoice in each run.
C1_CountAtMostThree ==
  \A i \in Ids : invoices[i].reminder_count <= 3

\* a run has just written the third reminder of an invoice
C1_Witness ==
  \E i \in Ids : Did(1, "write", i) /\ invoices[i].reminder_count = 3

\* C2: over any number of runs that do not overlap, and whatever the outcome of
\* each dispatch and each state update, at most 3 reminders are delivered for an
\* invoice over its lifetime.
C2_AtMostThreeSends ==
  \A i \in Ids : dispatched[i] <= 3

\* C3: whenever a run leaves the state update that follows a successful dispatch,
\* the stored reminder_count of that invoice is one more than just before.
C3_SendIncrementsCount ==
  [][\A r \in Runs :
       (pc[r] = "Updating" /\ idx'[r] > idx[r])
         => invoices'[Cur(r).id].reminder_count = invoices[Cur(r).id].reminder_count + 1]_vars

\* C4: reminder_count and reminder_sent_at of an invoice change only in a step in
\* which a run records its write of that invoice, and a run writes an invoice only
\* after its own dispatch for that invoice succeeded; an invoice a run skipped or
\* failed to dispatch is not written by it.
C4_WriteOnlyAfterSend ==
  /\ [](\A r \in Runs, i \in Ids :
          Did(r, "write", i) =>
            /\ Did(r, "sent", i)
            /\ ~Did(r, "failed", i)
            /\ ~Did(r, "noemail", i))
  /\ [][\A i \in Ids :
          (\/ invoices'[i].reminder_count # invoices[i].reminder_count
           \/ invoices'[i].reminder_sent_at # invoices[i].reminder_sent_at)
            => \E r \in Runs : Did(r, "sent", i) /\ Happens(r, "write", i)]_vars

\* one run wrote an invoice after its send and left another, skipped, untouched
C4_Witness ==
  \E i, j \in Ids :
    /\ Did(1, "write", i)
    /\ ~Did(1, "lookup", j)
    /\ invoices[j].status = "open"
    /\ response[1].kind = "summary"

\* C5: when the dispatch for an invoice fails, the step leaves every invoice and
\* remindersSent as they were and moves the run on past that invoice, to the next
\* admitted invoice or to the success result; the run never updates or counts the
\* invoice afterwards.
C5_DispatchFailureIsolated ==
  /\ [](\A r \in Runs, i \in Ids :
          Did(r, "failed", i) => ~Did(r, "write", i) /\ ~Did(r, "updfail", i))
  /\ [][\A r \in Runs, i \in Ids :
          Happens(r, "failed", i) =>
            /\ invoices' = invoices
            /\ remindersSent'[r] = remindersSent[r]
            /\ idx'[r] > idx[r]
            /\ \/ pc'[r] = "Resolving" /\ idx'[r] <= Len(snap[r])
               \/ pc'[r] = "Done" /\ idx'[r] = Len(snap[r]) + 1
                                  /\ response'[r].kind = "summary"]_vars

\* a dispatch failed and the run went on to send and record a later invoice
C5_Witness ==
  \E i, j \in Ids : i < j /\ Did(1, "failed", i) /\ Did(1, "write", j)

\* C6: a run ends with the error result only if its bulk read failed.
C6_AbortOnlyOnReadFailure ==
  \A r \in Runs : response[r].kind = "error" => Did(r, "readfail", 0)

\* C7: when the bulk read fails the run ends at once with the error result (status
\* 500, the read's message, no remindersSent); it performs no lookup, dispatch or
\* write, and the failing step changes no invoice.
C7_ReadFailureIsFatal ==
  /\ [](\A r \in Runs :
          Did(r, "readfail", 0) =>
            /\ pc[r] = "Done"
            /\ response[r].status = 500
            /\ response[r].kind = "error"
            /\ response[r].error = ReadErrorMessage
            /\ events[r] = <<Ev("readfail", 0)>>)
  /\ [][\A r \in Runs : Happens(r, "readfail", 0) => invoices' = invoices]_vars

\* the read failed while an invoice was waiting for its first reminder
C7_Witness ==
  /\ Did(1, "readfail", 0)
  /\ \E i \in Ids : /\ invoices[i].status = "open"
                    /\ invoices[i].due_date = FirstDay
                    /\ invoices[i].reminder_count = 0

\* C8: an invoice whose status is not open is in no run's snapshot, and no run
\* performs a lookup, dispatch or update for it.
C8_NotOpenNeverSelected ==
  \A r \in Runs, i \in Ids :
    invoices[i].status # "open" =>
      /\ \A k \in 1 .. Len(snap[r]) : snap[r][k].id # i
      /\ \A k \in 1 .. Len(events[r]) : events[r][k].id # i

\* a run completed, sending for an open invoice, while an invoice that is due and
\* below the cap was not open
C8_Witness ==
  \E i, j \in Ids :
    /\ invoices[i].status # "open"
    /\ invoices[i].due_date = FirstDay
    /\ invoices[i].reminder_count = 0
    /\ Did(1, "sent", j)
    /\ response[1].kind = "summary"

\* C9: an open invoice with a due date that a run has examined was admitted to the
\* recipient lookup exactly when its reminder_count is below 3 and its due date is
\* past, now, or at most 7 days (boundary included) after the run's time.
C9_SelectionPolicy ==
  \A r \in Runs : \A k \in 1 .. Len(snap[r]) :
    (snap[r][k].due_date # Null /\ Examined(r, k)) =>
      (Admitted(r, k) <=>
         /\ snap[r][k].reminder_count < 3
         /\ \/ snap[r][k].due_date * MsPerDay <= now[r]
            \/ snap[r][k].due_date * MsPerDay - now[r] <= 7 * MsPerDay)

\* an invoice due exactly 7 days after the run's time was admitted
C9_Witness ==
  \E k \in 1 .. Len(snap[1]) :
    /\ snap[1][k].due_date * MsPerDay - now[1] = 7 * MsPerDay
    /\ Did(1, "lookup", snap[1][k].id)

\* C10: when the recipient lookup fails or finds no email, the step leaves every
\* invoice and remindersSent as they were and moves the run on past that invoice,
\* to the next admitted invoice or to the success result; the run never dispatches,
\* updates or counts the invoice.
C10_NoRecipientSkipped ==
  /\ [](\A r \in Runs, i \in Ids :
          Did(r, "noemail", i) =>
            /\ ~Did(r, "dispatch", i)
            /\ ~Did(r, "write", i)
            /\ ~Did(r, "updfail", i))
  /\ [][\A r \in Runs, i \in Ids :
          Happens(r, "noemail", i) =>
            /\ invoices' = invoices
            /\ remindersSent'[r] = remindersSent[r]
            /\ idx'[r] > idx[r]
            /\ \/ pc'[r] = "Resolving" /\ idx'[r] <= Len(snap[r])
               \/ pc'[r] = "Done" /\ idx'[r] = Len(snap[r]) + 1
                                  /\ response'[r].kind = "summary"]_vars

\* an invoice had no recipient and the run went on to send and record a later one
C10_Witness ==
  \E i, j \in Ids : i < j /\ Did(1, "noemail", i) /\ Did(1, "write", j)

\* the invoices for which the dispatch of run r succeeded
SentIn(r) == {i \in Ids : Did(r, "sent", i)}

\* C11: a run whose bulk read succeeded ends with status 200 and the result
\* {success: true, remindersSent: n}, n being the number of invoices for which
\* the dispatch succeeded during that run.
C11_SummaryCountsSends ==
  \A r \in Runs :
    (pc[r] = "Done" /\ response[r].kind # "ok" /\ ~Did(r, "readfail", 0))
      => response[r] = SummaryResponse(Cardinality(SentIn(r)))

\* C12: when the state update fails after a successful dispatch, the run
\* writes a log line for that invoice that is not the line used for dispatch
\* failures.
C12_UpdateFailureLogged ==
  \A r \in Runs, i \in Ids :
    Did(r, "updfail", i) =>
      \E line \in LogLines \ {DispatchFailureLog} : Did(r, line, i)

\* C15: a preflight (OPTIONS) request is answered without performing the batch:
\* no invoice read, no recipient lookup, no dispatch and no write happens for
\* it, and the stored invoices are unchanged.
C15_PreflightDoesNothing ==
  /\ [](\A r \in Runs :
          Did(r, "options", 0) =>
            /\ events[r] = <<Ev("options", 0)>>
            /\ snap[r] = <<>>
            /\ pc[r] = "Done"
            /\ response[r] = PreflightResponse)
  /\ [][\A r \in Runs :
          (invocations' # invocations /\ Did(r, "options", 0)')
            => invoices' = invoices]_vars

\* a preflight was answered while an invoice was waiting for its first reminder
C15_Witness ==
  /\ Did(1, "options", 0)
  /\ \E i \in Ids : invoices[i] = InvoiceRow("open", FirstDay, 0, 25)

\* the position of invoice i in the snapshot of run r
Pos(r, i) == CHOOSE k \in 1 .. Len(snap[r]) : snap[r][k].id = i

\* run r is through with invoice i: it was passed over for want of a recipient,
\* its dispatch failed, or its update has answered
Finished(r, i) ==
  \/ Did(r, "noemail", i)
  \/ Did(r, "failed", i)
  \/ Did(r, "write", i)
  \/ Did(r, "updfail", i)

\* C17: within one run the invoices are processed strictly one after the other
\* in the order of the bulk read: each call of the run is for the same invoice
\* as the call before it, or it is the recipient lookup of an invoice later in
\* the snapshot, made when the run is through with the earlier one (its
\* dispatch and update finished, or it was skipped or failed).
C17_StrictlySequential ==
  \A r \in Runs : \A k \in 1 .. Len(events[r]) - 1 :
    LET a == events[r][k]
        b == events[r][k + 1]
    IN a.id # b.id =>
         /\ a.id # 0 /\ b.id # 0
         /\ Pos(r, a.id) < Pos(r, b.id)
         /\ b.op = "lookup"
         /\ Finished(r, a.id)

\* a run sent and recorded the reminder of one invoice and then went on to
\* dispatch for the next
C17_Witness ==
  \E i, j \in Ids :
    /\ Did(1, "write", i)
    /\ Did(1, "dispatch", j)
    /\ Pos(1, i) < Pos(1, j)

\* the columns of an invoice that the update does not name
OtherFields == {"user_id", "amount", "due_date", "payment_reference", "status"}

\* C18: the state update of a dispatched invoice writes reminder_sent_at and
\* reminder_count of that invoice together in one step (no state has one
\* written without the other) and leaves every other field of that invoice
\* and every other invoice unchanged.
C18_UpdateWritesBothOnly ==
  /\ [](\A i \in Ids :
          invoices[i].reminder_sent_at = Null <=> invoices[i].reminder_count = 0)
  /\ [][\A r \in Runs, i \in Ids :
          Happens(r, "write", i) =>
            /\ invoices'[i].reminder_sent_at = now[r]
            /\ invoices'[i].reminder_count = snap[r][Pos(r, i)].reminder_count + 1
            /\ \A f \in OtherFields : invoices'[i][f] = invoices[i][f]
            /\ \A j \in Ids \ {i} : invoices'[j] = invoices[j]]_vars

\* a run recorded the first reminder of one invoice while another invoice of
\* the same owner is still without one
C18_Witness ==
  \E i, j \in Ids :
    /\ i # j
    /\ Did(1, "write", i)
    /\ invoices[i].reminder_count = 1
    /\ invoices[i].reminder_sent_at = now[1]
    /\ invoices[j] = InvoiceRow("open", FirstDay, 0, 25)

\* how many calls with an outcome in ops run r has made for invoice i
Times(r, ops, i) ==
  Cardinality({k \in DOMAIN events[r] :
                 events[r][k].id = i /\ events[r][k].op \in ops})

\* C19: within one run each invoice is dispatched at most once and its state
\* update is attempted at most once: a failed dispatch or a failed update is
\* not tried again in the same run.
C19_NoRetry ==
  \A r \in Runs, i \in Ids :
    /\ Times(r, {"dispatch"}, i) <= 1
    /\ Times(r, {"sent", "failed"}, i) <= 1
    /\ Times(r, {"write", "updfail"}, i) <= 1

\* a run came to its end with a failed dispatch for one invoice and a failed
\* update for another
C19_Witness ==
  \E i, j \in Ids :
    /\ Did(1, "failed", i)
    /\ Did(1, "updfail", j)
    /\ response[1].kind = "summary"

\* C14 as stated: whenever reminder_sent_at of an invoice is written, the value
\* written is the time at which the successful send for that invoice took
\* place, not an earlier or later moment of the run.
C14_SentAtIsSendTime ==
  [][\A r \in Runs, i \in Ids :
       Happens(r, "write", i) => invoices'[i].reminder_sent_at = clock]_vars

\* C14, amended: whenever reminder_sent_at of an invoice is written, the write
\* follows a successful send for that invoice in the same run and the value
\* written is the run's now, the instant read at the start of the run, which is
\* not later than the time of that send.
C14_SentAtIsRunStart ==
  [][\A r \in Runs, i \in Ids :
       Happens(r, "write", i) =>
         /\ Did(r, "sent", i)
         /\ invoices'[i].reminder_sent_at = now[r]
         /\ now[r] <= clock]_vars

\* a reminder was recorded whose send took place after the start of the run
C14_Witness ==
  \E i \in Ids :
    /\ Did(1, "write", i)
    /\ invoices[i].reminder_sent_at = now[1]
    /\ now[1] < clock

\* C13: every run eventually reaches Done and returns a response; a provider
\* that never answers cannot block the run forever (the dispatch call is cut
\* off by a timeout and counts as a dispatch failure).
C13_EveryRunEnds ==
  \A r \in Runs : (pc[r] = "Selecting") ~> (pc[r] = "Done")

\* the reminder_count run r read for invoice i in its bulk read
SnapCount(r, i) == snap[r][Pos(r, i)].reminder_count

\* runs r1 and r2 both read invoice i with the same count and both delivered a
\* reminder for it
BothSent(r1, r2, i) ==
  /\ r1 # r2
  /\ Did(r1, "sent", i)
  /\ Did(r2, "sent", i)
  /\ SnapCount(r1, i) = SnapCount(r2, i)

\* C16: nothing keeps runs apart, so two overlapping runs can both read the
\* same invoice with the same reminder_count and both dispatch a reminder for
\* it; when both then record it, the stored count stands one above the count
\* they read: two sends, one step of the counter.
C16_TwoSendsOneStep ==
  [][\A r1, r2 \in Runs, i \in Ids :
       (BothSent(r1, r2, i) /\ Did(r1, "write", i) /\ Happens(r2, "write", i))
         => invoices'[i].reminder_count = SnapCount(r1, i) + 1]_vars

\* two runs read the same never-reminded invoice, both sent and both recorded:
\* the stored count is 1
C16_Witness ==
  \E i \in Ids :
    /\ BothSent(1, 2, i)
    /\ SnapCount(1, i) = 0
    /\ Did(1, "write", i)
    /\ Did(2, "write", i)
    /\ invoices[i].reminder_count = 1

\* C20: however the runs overlap, the stored reminder_count of an invoice that
\* starts in 0..3 stays in 0..3: a run writes the count of its snapshot plus 1
\* and only for snapshot counts below 3.
C20_CountCappedUnderOverlap ==
  /\ \A i \in Ids : invoices[i].reminder_count \in 0 .. MaxReminders
  /\ \A r \in Runs : \A k \in 1 .. Len(snap[r]) :
       snap[r][k].reminder_count \in 0 .. MaxReminders

\* two overlapping runs both read an invoice one reminder below the cap and
\* both recorded their send: the stored count is 3
C20_Witness ==
  \E i \in Ids :
    /\ BothSent(1, 2, i)
    /\ SnapCount(1, i) = MaxReminders - 1
    /\ Did(1, "write", i)
    /\ Did(2, "write", i)
    /\ invoices[i].reminder_count = MaxReminders

\* C23: an open invoice without a due date is skipped by every run: the run
\* makes no recipient lookup, no dispatch and no update for it, never stops
\* at it, does not count it in remindersSent, and goes on to the rows after it.
C23_NoDueDateSkipped ==
  \A r \in Runs : \A k \in 1 .. Len(snap[r]) :
    snap[r][k].due_date = Null =>
      /\ \A e \in DOMAIN events[r] : events[r][e].id # snap[r][k].id
      /\ pc[r] \in {"Resolving", "Dispatching", "Updating", "Waiting"} => idx[r] # k
      /\ response[r].kind = "summary" =>
           response[r].remindersSent = Cardinality(SentIn(r) \ {snap[r][k].id})

\* a run read an open invoice without a due date ahead of an invoice that was
\* due, sent and recorded the reminder of the second and came to its end
C23_Witness ==
  \E i, j \in Ids :
    /\ i < j
    /\ Len(snap[1]) = 2
    /\ snap[1][1].id = i /\ snap[1][1].due_date = Null
    /\ Did(1, "write", j)
    /\ response[1] = SummaryResponse(1)

\* C22: a reminder is dispatched for an invoice only if the stored status of
\* the invoice is open at the moment of the dispatch, also when another actor
\* changed the status (the invoice was paid) after the bulk read of the run.
C22_DispatchOnlyIfOpen ==
  [][\A r \in Runs, i \in Ids :
       Happens(r, "dispatch", i) => invoices[i].status = "open"]_vars

\* C21: under any interleaving of runs, overlapping ones included, the stored
\* reminder_count of an invoice never decreases from one state to the next.
C21_CountNeverDecreases ==
  [][\A i \in Ids :
       invoices'[i].reminder_count >= invoices[i].reminder_count]_vars

====
